---- MODULE Spec2Model ----
(***************************************************************************)
(* CLIPEncoder (clip_server/executors/clip_onnx.py, clip_torch.py): the    *)
(* encode and rank request handlers, the ThreadPool that preprocesses      *)
(* minibatches, and the inference calls, as a state machine.               *)
(*                                                                         *)
(* Items of a Document Set are numbered 1..n; roots come first, then the   *)
(* matches of root 1, of root 2, ...  An embedding is an integer, 0 when   *)
(* the slot is absent.                                                     *)
(***************************************************************************)
EXTENDS Integers, Sequences, FiniteSets

\* ---- bounds of the model ----
NumReq == 2          \* request slots of the process
MaxItems == 3        \* Items in one Document Set
MaxBatch == 2        \* largest configured minibatch_size
NumWorkers == 2      \* num_worker_preprocess
MaxBacklog == 1      \* leftover pool tasks tolerated when a handler starts
MaxThreads == 4      \* largest torch.get_num_threads() of a host
MaxReplicas == 8     \* largest runtime_args.replicas

Reqs == 1..NumReq
Workers == 1..NumWorkers

Paths == {"r", "m", "r,m"}
Absent == "absent"
Kinds == {"image", "text", "none"}

VARIABLES
    _access_paths,       \* self._access_paths
    _minibatch_size,     \* self._minibatch_size
    loop,                \* request whose handler holds the event-loop thread, 0 if none
    pc,                  \* pc[r]: position of request r's handler
    on,                  \* on[r]: "encode" or "rank"
    parameters,          \* parameters[r]: the request's parameters
    docs,                \* docs[r]: the request's Document Set
    da,                  \* da[r]: the DocumentArray handed to encode
    access_paths,        \* access_paths[r]: encode's local
    _img_da,             \* _img_da of request r
    _txt_da,             \* _txt_da of request r
    mod,                 \* modality whose pipeline request r is running
    k,                   \* minibatches of the current pipeline consumed so far
    cur,                 \* the (minibatch, batch_data) pair the loop body holds
    it,                  \* it[r]: the IMapIterator under request r's map_batch
    taskqueue,           \* Pool._taskqueue: task sequences not yet fed to the workers
    inqueue,             \* Pool._inqueue: tasks waiting for a worker
    busy,                \* busy[w]: the task worker w is running
    host,                \* what __init__ finds: executor, device, environment, runtime_args
    engine,              \* the thread settings __init__ made, and whether it has completed
    registry,            \* call sites whose deprecation warning has been shown
    inference_mode,      \* torch.inference_mode() is active on the event-loop thread
    timings              \* timings[r][name]: observations that call r's scopes have recorded

vars == <<_access_paths, _minibatch_size, loop, pc, on, parameters, docs,
          da, access_paths, _img_da, _txt_da, mod, k, cur, it, taskqueue, inqueue, busy,
          host, engine, registry, inference_mode, timings>>

\* ---- sequences ----
RECURSIVE Flatten(_)
Flatten(ss) == IF ss = <<>> THEN <<>> ELSE Head(ss) \o Flatten(Tail(ss))

Range(s) == {s[j] : j \in 1..Len(s)}

Min(a, b) == IF a < b THEN a ELSE b

Max(a, b) == IF a > b THEN a ELSE b

\* ---- the Document Set ----
\* The content token of Item i: pairwise distinct, so that an embedding
\* computed from another Item's content is told apart.
ContentOf(i) == i + i

\* parent functions of the Document Sets with n Items: roots are a prefix,
\* matches hang one level below a root, in root order
Shapes(n) ==
    {p \in [1..n -> 0..n] :
        /\ \A i \in 1..n : p[i] < i
        /\ \A i \in 1..n : p[i] # 0 => p[p[i]] = 0
        /\ \A i, j \in 1..n : i < j => p[i] <= p[j]}

RECURSIVE IdsWhere(_, _, _)
\* the ids i..n that satisfy test, ascending
IdsWhere(i, n, test) ==
    IF i > n THEN <<>>
    ELSE (IF test[i] THEN <<i>> ELSE <<>>) \o IdsWhere(i + 1, n, test)

MkDocs(n, p, kd) ==
    [roots |-> IdsWhere(1, n, [i \in 1..n |-> p[i] = 0]),
     matches |-> [i \in 1..n |-> IdsWhere(1, n, [j \in 1..n |-> p[j] = i])],
     kind |-> kd,
     content |-> [i \in 1..n |-> ContentOf(i)],
     embedding |-> [i \in 1..n |-> 0],
     score |-> [i \in 1..n |-> 0]]

DocSets ==
    UNION {{MkDocs(n, p, kd) : p \in Shapes(n), kd \in [1..n -> Kinds]} : n \in 0..MaxItems}

NoDocs == MkDocs(0, <<>>, <<>>)

Items(D) == DOMAIN D.kind

\* ---- DocumentArray selection: docs[path] ----
Segments(path) ==
    IF path = "r" THEN <<"r">> ELSE IF path = "m" THEN <<"m">> ELSE <<"r", "m">>

\* one path segment over the DocumentArray L
Traverse(D, L, seg) ==
    IF seg = "r" THEN L ELSE Flatten([j \in 1..Len(L) |-> D.matches[L[j]]])

\* docs[path]: the segments' traversals, concatenated
Select(D, L, path) ==
    Flatten([j \in 1..Len(Segments(path)) |-> Traverse(D, L, Segments(path)[j])])

\* ---- the modality split ----
\* split_img_txt_da(d, _img_da, _txt_da): d is appended to the subset of its
\* content; an Item with neither content is appended to none
split_img_txt_da(D, d, both) ==
    IF D.kind[d] = "image" THEN [img |-> Append(both.img, d), txt |-> both.txt]
    ELSE IF D.kind[d] = "text" THEN [img |-> both.img, txt |-> Append(both.txt, d)]
    ELSE both

RECURSIVE SplitLoop(_, _, _)
\* for d in docs[access_paths]: split_img_txt_da(d, _img_da, _txt_da)
SplitLoop(D, sel, both) ==
    IF sel = <<>> THEN both
    ELSE SplitLoop(D, Tail(sel), split_img_txt_da(D, Head(sel), both))

\* ---- minibatches ----
RECURSIVE BatchesOversize(_, _)
\* the slices run one Item past batch_size
BatchesOversize(s, b) ==
    IF s = <<>> THEN <<>>
    ELSE <<SubSeq(s, 1, Min(b + 1, Len(s)))>>
         \o BatchesOversize(SubSeq(s, Min(b + 1, Len(s)) + 1, Len(s)), b)

RECURSIVE Batches(_, _)
\* DocumentArray.batch(batch_size): successive slices of at most b Items
Batches(s, b) ==
    IF s = <<>> THEN <<>>
    ELSE <<SubSeq(s, 1, Min(b, Len(s)))>> \o Batches(SubSeq(s, Min(b, Len(s)) + 1, Len(s)), b)

Subset(r) == IF mod[r] = "image" THEN _img_da[r] ELSE _txt_da[r]

\* ---- preprocessing and inference ----
\* preproc_image / preproc_text: the (minibatch, tensor) pair, one tensor row
\* per Item, computed from that Item's content
Preproc(D, batch) ==
    [ok |-> TRUE, da |-> batch, tensor |-> [j \in 1..Len(batch) |-> D.content[batch[j]]]]

\* the exception a failed transform leaves in place of the pair
Raised == [ok |-> FALSE, da |-> <<>>, tensor |-> <<>>]

NoPair == [ok |-> TRUE, da |-> <<>>, tensor |-> <<>>]

\* self._model.encode_image(batch_data): one embedding per tensor row
encode_image(tensor) == [j \in 1..Len(tensor) |-> 2 * tensor[j]]

\* self._model.encode_text(batch_data): one embedding per tensor row
encode_text(tensor) == [j \in 1..Len(tensor) |-> 2 * tensor[j] + 1]

\* the rows are assigned to the minibatch in reverse
SetEmbeddingsReversed(D, minibatch, embs) ==
    [D EXCEPT !.embedding =
        [i \in Items(D) |->
            IF \E j \in 1..Len(minibatch) : minibatch[j] = i
            THEN embs[Len(minibatch) + 1 - (CHOOSE j \in 1..Len(minibatch) : minibatch[j] = i)]
            ELSE @[i]]]

\* the assignment also clears the content of the minibatch's Items
SetEmbeddingsAndClear(D, minibatch, embs) ==
    [D EXCEPT !.embedding =
                [i \in Items(D) |->
                    IF i \in Range(minibatch) THEN embs[CHOOSE j \in 1..Len(minibatch) : minibatch[j] = i]
                    ELSE @[i]],
              !.content = [i \in Items(D) |-> IF i \in Range(minibatch) THEN 0 ELSE @[i]]]

\* minibatch.embeddings = embs: row j goes to the j-th Item of the minibatch
SetEmbeddings(D, minibatch, embs) ==
    [D EXCEPT !.embedding =
        [i \in Items(D) |->
            IF \E j \in 1..Len(minibatch) : minibatch[j] = i
            THEN embs[CHOOSE j \in 1..Len(minibatch) :
                        /\ minibatch[j] = i
                        /\ \A j2 \in 1..Len(minibatch) : minibatch[j2] = i => j2 <= j]
            ELSE @[i]]]

\* ---- ThreadPool.imap ----
NoTask == [job |-> -1, i |-> 0, da |-> <<>>]

NoIter == [items |-> <<>>, unsorted |-> {}, index |-> 0]

RECURSIVE Drain(_)
\* IMapIterator._set, the loop that moves the results that were waiting for
\* their turn from _unsorted to _items
Drain(iter) ==
    IF \E u \in iter.unsorted : u.i = iter.index
    THEN LET u == CHOOSE u \in iter.unsorted : u.i = iter.index
         IN  Drain([items |-> Append(iter.items, u.obj),
                    unsorted |-> iter.unsorted \ {u},
                    index |-> iter.index + 1])
    ELSE iter

\* imap_unordered: a result reaches _items when it arrives
IMapSetUnordered(iter, i, obj) ==
    [items |-> Append(iter.items, obj), unsorted |-> iter.unsorted, index |-> iter.index + 1]

\* IMapIterator._set(i, obj): results reach _items in submission order
IMapSet(iter, i, obj) ==
    IF i = iter.index
    THEN Drain([items |-> Append(iter.items, obj),
                unsorted |-> iter.unsorted,
                index |-> iter.index + 1])
    ELSE [iter EXCEPT !.unsorted = @ \cup {[i |-> i, obj |-> obj]}]

\* the tasks of a dropped iterator keep reporting to the call's slot
OrphanTaskKept(t, r) == t

\* tasks of a dropped iterator: still queued and run, their results read by nobody
OrphanTask(t, r) == IF t.job = r THEN [job |-> 0, i |-> 0, da |-> <<>>] ELSE t

OrphanSeq(q, r) ==
    IF q.job = r
    THEN [job |-> 0, i |-> 0, batches |-> [j \in 1..Len(q.batches) |-> <<>>]]
    ELSE q

RECURSIVE SumLen(_)
SumLen(tq) == IF tq = <<>> THEN 0 ELSE Len(Head(tq).batches) + SumLen(Tail(tq))

\* tasks that an earlier call left in the pool, queued or running
Leftover ==
    Len(inqueue) + SumLen(taskqueue) + Cardinality({w \in Workers : busy[w] # NoTask})

\* ---- request parameters ----
Params == [access_paths : Paths \cup {Absent}, traversal_paths : Paths \cup {Absent}]

NoParams == [access_paths |-> Absent, traversal_paths |-> Absent]

\* the access_paths key of the request is not looked up
ResolvePathIgnoringRequest(P, default) ==
    IF P.traversal_paths # Absent THEN P.traversal_paths ELSE default

\* encode: parameters.get('access_paths', self._access_paths), overridden by
\* parameters['traversal_paths'] when that key is present
ResolvePath(P, default) ==
    IF P.traversal_paths # Absent THEN P.traversal_paths
    ELSE IF P.access_paths # Absent THEN P.access_paths
    ELSE default

\* ---- the event loop ----
\* the handler awaits the inference call and gives the thread back meanwhile
SuspendsAtInfer(p) == p = "infer"

\* the positions at which a started handler gives the event-loop thread back
\* before it ends: encode and rank await nothing that suspends
Suspends(p) == FALSE

Ended(p) == p \in {"done", "failed"}

\* handler r may take its next step
CanRun(r) == loop = r \/ (loop = 0 /\ Suspends(pc[r]))

\* the holder of the event-loop thread once handler r has moved to position p;
\* a handler that ended holds it until its response is out (Respond)
Holder(r, p) == IF Suspends(p) THEN 0 ELSE r

\* where encode goes after the pipeline of modality m
NextPhase(r, m) ==
    IF m = "image" THEN "text" ELSE IF on[r] = "rank" THEN "set_rank" ELSE "done"

\* the block is not left when an exception passes through it
InWithLeaks(p) == p \in {"image", "text", "next", "infer", "failed"}

\* the positions of encode inside `with torch.inference_mode():`, which
\* holds both pipelines
InWith(p) == p \in {"image", "text", "next", "infer"}

\* the mode of the event-loop thread once the handler is at position p; the
\* ONNX executor has no such block
ModeAt(p) == host.executor = "torch" /\ InWith(p)

\* ---- ranking ----
\* the similarity of two embeddings; an absent embedding scores lowest
Sim(q, c) == IF q = 0 \/ c = 0 THEN 0 ELSE 1 + ((q * c) % 3)

\* x goes before the first element that scores strictly less
InsertByScore(sorted, x, sc) ==
    LET lower == {j \in 1..Len(sorted) : sc[sorted[j]] < sc[x]}
        at == IF lower = {} THEN Len(sorted) + 1
              ELSE CHOOSE j \in lower : \A j2 \in lower : j <= j2
    IN  SubSeq(sorted, 1, at - 1) \o <<x>> \o SubSeq(sorted, at, Len(sorted))

RECURSIVE SortByScore(_, _, _)
\* sorted(candidates, key=score, reverse=True): descending and stable
SortByScore(sorted, rest, sc) ==
    IF rest = <<>> THEN sorted
    ELSE SortByScore(InsertByScore(sorted, Head(rest), sc), Tail(rest), sc)

ParentOf(D, c) == CHOOSE q \in Items(D) : c \in Range(D.matches[q])

IsMatch(D, c) == \E q \in Range(D.roots) : c \in Range(D.matches[q])

\* set_rank(docs): every candidate of a root is scored against the root and the
\* root's candidates are put in descending score order
set_rank(D) ==
    LET sc == [i \in Items(D) |->
                  IF IsMatch(D, i)
                  THEN Sim(D.embedding[ParentOf(D, i)], D.embedding[i])
                  ELSE D.score[i]]
    IN  [D EXCEPT !.score = sc,
                  !.matches = [q \in Items(D) |->
                      IF q \in Range(D.roots) THEN SortByScore(<<>>, D.matches[q], sc)
                      ELSE D.matches[q]]]

\* ---- construction ----
Executors == {"onnx", "torch"}

\* what __init__ finds on the host: the resolved device, whether
\* OMP_NUM_THREADS is in os.environ, whether runtime_args has replicas (1
\* stands in when it has not), torch.get_num_threads()
Hosts ==
    {h \in [executor : Executors, device : {"cpu", "cuda"}, OMP_NUM_THREADS : BOOLEAN,
            has_replicas : BOOLEAN, get_num_threads : 1..MaxThreads,
            replicas : 1..MaxReplicas] :
        ~h.has_replicas => h.replicas = 1}

\* both executors scale the host's threads alike
FactorAlike(e) == 1

\* torch.get_num_threads() * 2 in clip_onnx.py, torch.get_num_threads() in
\* clip_torch.py
Factor(e) == IF e = "onnx" THEN 2 ELSE 1

\* the condition under which __init__ sets the thread counts
Tunes(h) == h.device # "cuda" /\ ~h.OMP_NUM_THREADS /\ h.has_replicas

\* num_threads = max(1, torch.get_num_threads() [* 2] // replicas)
num_threads(h) == Max(1, (h.get_num_threads * Factor(h.executor)) \div h.replicas)

\* nothing constructed: no thread count set (0), no warning given
NoEngine ==
    [ready |-> FALSE, intra_op_num_threads |-> 0, inter_op_num_threads |-> 0,
     warned |-> FALSE]

\* the settings __init__ leaves behind on host h
EngineOf(h) ==
    IF Tunes(h)
    THEN [ready |-> TRUE, intra_op_num_threads |-> Max(num_threads(h), 1),
          inter_op_num_threads |-> 1, warned |-> num_threads(h) < 2]
    ELSE [NoEngine EXCEPT !.ready = TRUE]

\* warnings.warn under Python's default filter: a warning is shown the first
\* time its call site issues it
Warn(reg, site) == reg \cup {site}

Sites == {"__init__", "encode"}

\* the host of the instance whose requests Spec follows: the Torch executor on
\* a CPU host, one replica
ServingHost ==
    [executor |-> "torch", device |-> "cpu", OMP_NUM_THREADS |-> FALSE,
     has_replicas |-> TRUE, get_num_threads |-> MaxThreads, replicas |-> 1]

TimingNames ==
    {"preprocess_images_seconds", "preprocess_texts_seconds",
     "encode_images_seconds", "encode_texts_seconds"}

NoTimings == [n \in TimingNames |-> 0]

\* the scope around the model call of modality m: encode_images_seconds /
\* encode_texts_seconds
EncodeScope(m) == IF m = "image" THEN "encode_images_seconds" ELSE "encode_texts_seconds"

\* the scope around the transform of modality m: preprocess_images_seconds /
\* preprocess_texts_seconds
PreprocScope(m) ==
    IF m = "image" THEN "preprocess_images_seconds" ELSE "preprocess_texts_seconds"

\* leaving the scope records nothing
ObserveNothing(T, r, n) == T

\* a scope named n of call r is left, by return or by exception: self.monitor
\* records one observation
Observe(T, r, n) == [T EXCEPT ![r][n] = @ + 1]

\* ---- initial state: the instance after __init__, in service ----
\* The process has shown both deprecation warnings already.
Init ==
    /\ _access_paths \in Paths
    /\ _minibatch_size \in 1..MaxBatch
    /\ host = ServingHost
    /\ engine = EngineOf(ServingHost)
    /\ registry = Sites
    /\ inference_mode = FALSE
    /\ timings = [r \in Reqs |-> NoTimings]
    /\ loop = 0
    /\ pc = [r \in Reqs |-> "idle"]
    /\ on = [r \in Reqs |-> "encode"]
    /\ parameters = [r \in Reqs |-> NoParams]
    /\ docs = [r \in Reqs |-> NoDocs]
    /\ da = [r \in Reqs |-> <<>>]
    /\ access_paths = [r \in Reqs |-> "r"]
    /\ _img_da = [r \in Reqs |-> <<>>]
    /\ _txt_da = [r \in Reqs |-> <<>>]
    /\ mod = [r \in Reqs |-> "image"]
    /\ k = [r \in Reqs |-> 0]
    /\ cur = [r \in Reqs |-> NoPair]
    /\ it = [r \in Reqs |-> NoIter]
    /\ taskqueue = <<>>
    /\ inqueue = <<>>
    /\ busy = [w \in Workers |-> NoTask]

cfgvars == <<_access_paths, _minibatch_size, host, engine>>
poolvars == <<taskqueue, inqueue, busy>>
reqvars == <<on, parameters, da, access_paths, _img_da, _txt_da>>

\* ---- __init__ ----
\* before __init__: the host is given, nothing is set
InitNew ==
    /\ host \in Hosts
    /\ engine = NoEngine
    /\ _access_paths = Absent
    /\ _minibatch_size = 0
    /\ registry = {}
    /\ inference_mode = FALSE
    /\ timings = [r \in Reqs |-> NoTimings]
    /\ loop = 0
    /\ pc = [r \in Reqs |-> "idle"]
    /\ on = [r \in Reqs |-> "encode"]
    /\ parameters = [r \in Reqs |-> NoParams]
    /\ docs = [r \in Reqs |-> NoDocs]
    /\ da = [r \in Reqs |-> <<>>]
    /\ access_paths = [r \in Reqs |-> "r"]
    /\ _img_da = [r \in Reqs |-> <<>>]
    /\ _txt_da = [r \in Reqs |-> <<>>]
    /\ mod = [r \in Reqs |-> "image"]
    /\ k = [r \in Reqs |-> 0]
    /\ cur = [r \in Reqs |-> NoPair]
    /\ it = [r \in Reqs |-> NoIter]
    /\ taskqueue = <<>>
    /\ inqueue = <<>>
    /\ busy = [w \in Workers |-> NoTask]

\* __init__(minibatch_size, access_paths, **kwargs): the paths, the thread
\* settings, the pool and the model
Construct ==
    /\ ~engine.ready
    /\ \E ap \in Paths, tp \in Paths \cup {Absent}, mb \in 1..MaxBatch :
        /\ _minibatch_size' = mb
        /\ _access_paths' = IF tp # Absent THEN tp ELSE ap
        /\ registry' = IF tp # Absent THEN Warn(registry, "__init__") ELSE registry
    /\ engine' = EngineOf(host)
    /\ UNCHANGED <<host, poolvars, reqvars, loop, pc, docs, mod, k, cur, it,
                   inference_mode, timings>>

\* ---- the handlers ----
\* the framework schedules the handler of a new request on the event loop
Arrive(r) ==
    /\ engine.ready
    /\ pc[r] = "idle"
    /\ pc' = [pc EXCEPT ![r] = "pending"]
    /\ UNCHANGED <<cfgvars, poolvars, reqvars, loop, docs, mod, k, cur, it, registry, inference_mode, timings>>

\* encode(docs, parameters), from its entry to the choice of the selection
\* path, with the parameters P
EncodeEnter(r, P) ==
    /\ registry' = IF P.traversal_paths # Absent THEN Warn(registry, "encode") ELSE registry
    /\ access_paths' = [access_paths EXCEPT ![r] = ResolvePath(P, _access_paths)]
    /\ pc' = [pc EXCEPT ![r] = "split"]
    /\ loop' = Holder(r, "split")

\* a request to the default endpoint: the handler is encode
EncodeRequest(r) ==
    /\ pc[r] = "pending"
    /\ loop = 0
    /\ Leftover <= MaxBacklog
    /\ on' = [on EXCEPT ![r] = "encode"]
    /\ \E P \in Params :
        /\ parameters' = [parameters EXCEPT ![r] = P]
        /\ EncodeEnter(r, P)
    /\ UNCHANGED <<cfgvars, poolvars, docs, da, _img_da, _txt_da, mod, k, cur, it, inference_mode, timings>>

\* a request to /rank: rank(docs, parameters) calls self.encode(docs['@r,m']),
\* which passes none of its parameters on
RankRequest(r) ==
    /\ pc[r] = "pending"
    /\ loop = 0
    /\ Leftover <= MaxBacklog
    /\ on' = [on EXCEPT ![r] = "rank"]
    /\ \E P \in Params :
        /\ parameters' = [parameters EXCEPT ![r] = P]
        /\ EncodeEnter(r, NoParams)
    /\ UNCHANGED <<cfgvars, poolvars, docs, da, _img_da, _txt_da, mod, k, cur, it, inference_mode, timings>>

\* the DocumentArray encode works on: the request's roots, or docs['@r,m']
\* when rank called it
EncodeArg(o, D) == IF o = "rank" THEN Select(D, D.roots, "r,m") ELSE D.roots

\* the split loop over docs[access_paths]. The request's Document Set D is
\* drawn here, where the handler first reads it; parameters is not read again.
Split(r) ==
    /\ pc[r] = "split"
    /\ CanRun(r)
    /\ \E D \in DocSets :
        LET both == SplitLoop(D, Select(D, EncodeArg(on[r], D), access_paths[r]),
                              [img |-> <<>>, txt |-> <<>>])
        IN  /\ docs' = [docs EXCEPT ![r] = D]
            /\ da' = [da EXCEPT ![r] = EncodeArg(on[r], D)]
            /\ _img_da' = [_img_da EXCEPT ![r] = both.img]
            /\ _txt_da' = [_txt_da EXCEPT ![r] = both.txt]
    /\ parameters' = [parameters EXCEPT ![r] = NoParams]
    /\ pc' = [pc EXCEPT ![r] = "image"]
    /\ loop' = Holder(r, "image")
    /\ UNCHANGED <<cfgvars, poolvars, on, access_paths, mod, k, cur, it, registry, timings>>
    /\ inference_mode' = ModeAt("image")

\* "if _img_da:" / "if _txt_da:" with an empty subset: the pipeline is skipped
SkipModality(r) ==
    /\ pc[r] \in {"image", "text"}
    /\ CanRun(r)
    /\ (IF pc[r] = "image" THEN _img_da[r] ELSE _txt_da[r]) = <<>>
    /\ pc' = [pc EXCEPT ![r] = NextPhase(r, pc[r])]
    /\ loop' = Holder(r, NextPhase(r, pc[r]))
    /\ UNCHANGED <<cfgvars, poolvars, reqvars, docs, mod, k, cur, it, registry, timings>>
    /\ inference_mode' = ModeAt(NextPhase(r, pc[r]))

\* map_batch is called whether or not the subset is empty
MapBatchUnguarded(r) ==
    /\ pc[r] \in {"image", "text"}
    /\ CanRun(r)
    /\ taskqueue' = Append(taskqueue, [job |-> r, i |-> 0, batches |-> <<>>])
    /\ it' = [it EXCEPT ![r] = NoIter]
    /\ mod' = [mod EXCEPT ![r] = pc[r]]
    /\ k' = [k EXCEPT ![r] = 0]
    /\ pc' = [pc EXCEPT ![r] = "next"]
    /\ loop' = Holder(r, "next")
    /\ UNCHANGED <<cfgvars, inqueue, busy, reqvars, docs, cur, registry, inference_mode, timings>>

\* map_batch(self._preproc_..., batch_size=self._minibatch_size, pool=self._pool):
\* pool.imap hands the whole sequence of minibatches to the pool's task handler
MapBatch(r) ==
    /\ pc[r] \in {"image", "text"}
    /\ CanRun(r)
    /\ (IF pc[r] = "image" THEN _img_da[r] ELSE _txt_da[r]) # <<>>
    /\ taskqueue' = Append(taskqueue,
            [job |-> r, i |-> 0,
             batches |-> Batches(IF pc[r] = "image" THEN _img_da[r] ELSE _txt_da[r],
                                 _minibatch_size)])
    /\ it' = [it EXCEPT ![r] = NoIter]
    /\ mod' = [mod EXCEPT ![r] = pc[r]]
    /\ k' = [k EXCEPT ![r] = 0]
    /\ pc' = [pc EXCEPT ![r] = "next"]
    /\ loop' = Holder(r, "next")
    /\ UNCHANGED <<cfgvars, inqueue, busy, reqvars, docs, cur, registry, timings>>
    /\ inference_mode' = ModeAt("next")

\* the exception leaves the handler: its iterator is dropped, what it had
\* submitted stays in the pool
Fail(r) ==
    /\ pc' = [pc EXCEPT ![r] = "failed"]
    /\ loop' = Holder(r, "failed")
    /\ it' = [it EXCEPT ![r] = NoIter]
    /\ cur' = [cur EXCEPT ![r] = NoPair]
    /\ k' = [k EXCEPT ![r] = 0]
    /\ taskqueue' = [j \in 1..Len(taskqueue) |-> OrphanSeq(taskqueue[j], r)]
    /\ inqueue' = [j \in 1..Len(inqueue) |-> OrphanTask(inqueue[j], r)]
    /\ busy' = [w \in Workers |-> OrphanTask(busy[w], r)]
    /\ inference_mode' = ModeAt("failed")

\* the for loop takes the next pair: the preprocessed minibatch is handed to
\* encode_image / encode_text
Yield(r) ==
    /\ pc[r] = "next"
    /\ CanRun(r)
    /\ it[r].items # <<>>
    /\ Head(it[r].items).ok
    /\ cur' = [cur EXCEPT ![r] = Head(it[r].items)]
    /\ it' = [it EXCEPT ![r].items = Tail(@)]
    /\ pc' = [pc EXCEPT ![r] = "infer"]
    /\ loop' = Holder(r, "infer")
    /\ UNCHANGED <<cfgvars, poolvars, reqvars, docs, mod, k, registry, timings>>
    /\ inference_mode' = ModeAt("infer")

\* the for loop passes over a result that is an exception
YieldRaiseSkips(r) ==
    /\ pc[r] = "next"
    /\ CanRun(r)
    /\ it[r].items # <<>>
    /\ ~Head(it[r].items).ok
    /\ it' = [it EXCEPT ![r].items = Tail(@)]
    /\ k' = [k EXCEPT ![r] = @ + 1]
    /\ UNCHANGED <<cfgvars, poolvars, reqvars, loop, pc, docs, mod, cur, registry,
                   inference_mode, timings>>

\* the for loop takes the next result and it is the transform's exception
YieldRaise(r) ==
    /\ pc[r] = "next"
    /\ CanRun(r)
    /\ it[r].items # <<>>
    /\ ~Head(it[r].items).ok
    /\ Fail(r)
    /\ UNCHANGED <<cfgvars, reqvars, docs, mod, registry, timings>>

\* the for loop is left after its first pair
ExhaustedEarly(r) == k[r] + 1 >= 1

\* the for loop ends with the pair it holds: every minibatch of the subset has
\* been yielded
Exhausted(r) == k[r] + 1 = Len(Batches(Subset(r), _minibatch_size))

\* the inference call returns and minibatch.embeddings is assigned; after the
\* last minibatch the for loop ends
InferReturn(r) ==
    /\ pc[r] = "infer"
    /\ CanRun(r)
    /\ docs' = [docs EXCEPT ![r] =
            SetEmbeddings(@, cur[r].da,
                IF mod[r] = "image" THEN encode_image(cur[r].tensor)
                ELSE encode_text(cur[r].tensor))]
    /\ cur' = [cur EXCEPT ![r] = NoPair]
    /\ IF Exhausted(r)
       THEN /\ pc' = [pc EXCEPT ![r] = NextPhase(r, mod[r])]
            /\ loop' = Holder(r, NextPhase(r, mod[r]))
            /\ k' = [k EXCEPT ![r] = 0]
            /\ it' = [it EXCEPT ![r] = NoIter]
       ELSE /\ pc' = [pc EXCEPT ![r] = "next"]
            /\ loop' = Holder(r, "next")
            /\ k' = [k EXCEPT ![r] = @ + 1]
            /\ it' = it
    /\ timings' = Observe(timings, r, EncodeScope(mod[r]))
    /\ UNCHANGED <<cfgvars, poolvars, reqvars, mod, registry>>
    /\ inference_mode' = ModeAt(IF Exhausted(r) THEN NextPhase(r, mod[r]) ELSE "next")

\* the inference call raises
InferRaise(r) ==
    /\ pc[r] = "infer"
    /\ CanRun(r)
    /\ Fail(r)
    /\ timings' = Observe(timings, r, EncodeScope(mod[r]))
    /\ UNCHANGED <<cfgvars, reqvars, docs, mod, registry>>

\* rank returns without the call of set_rank
SetRankSkipped(r) ==
    /\ pc[r] = "set_rank"
    /\ CanRun(r)
    /\ pc' = [pc EXCEPT ![r] = "done"]
    /\ loop' = Holder(r, "done")
    /\ UNCHANGED <<cfgvars, poolvars, reqvars, docs, mod, k, cur, it, registry, inference_mode, timings>>

\* rank, after encode has returned: set_rank(docs)
SetRank(r) ==
    /\ pc[r] = "set_rank"
    /\ CanRun(r)
    /\ docs' = [docs EXCEPT ![r] = set_rank(@)]
    /\ pc' = [pc EXCEPT ![r] = "done"]
    /\ loop' = Holder(r, "done")
    /\ UNCHANGED <<cfgvars, poolvars, reqvars, mod, k, cur, it, registry, inference_mode, timings>>

\* the framework sends the response (or the error) and forgets the request
Respond(r) ==
    /\ Ended(pc[r])
    /\ pc' = [pc EXCEPT ![r] = "idle"]
    /\ on' = [on EXCEPT ![r] = "encode"]
    /\ parameters' = [parameters EXCEPT ![r] = NoParams]
    /\ docs' = [docs EXCEPT ![r] = NoDocs]
    /\ da' = [da EXCEPT ![r] = <<>>]
    /\ access_paths' = [access_paths EXCEPT ![r] = "r"]
    /\ _img_da' = [_img_da EXCEPT ![r] = <<>>]
    /\ _txt_da' = [_txt_da EXCEPT ![r] = <<>>]
    /\ mod' = [mod EXCEPT ![r] = "image"]
    /\ k' = [k EXCEPT ![r] = 0]
    /\ loop' = IF loop = r THEN 0 ELSE loop
    /\ timings' = [timings EXCEPT ![r] = NoTimings]
    /\ UNCHANGED <<cfgvars, poolvars, cur, it, registry, inference_mode>>

\* ---- the pool's threads ----
\* the function the pool runs calls the model too
WorkerInfersToo(t) == t.job \in Reqs

\* whether a worker that runs task t is inside a call of the model:
\* _preproc_images and _preproc_texts call the transform only
WorkerInfers(t) == FALSE

\* the task handler thread feeds the next minibatch of the oldest sequence
HandleTasks ==
    /\ taskqueue # <<>>
    /\ LET q == Head(taskqueue)
       IN  /\ inqueue' = Append(inqueue, [job |-> q.job, i |-> q.i, da |-> Head(q.batches)])
           /\ taskqueue' = IF Len(q.batches) = 1 THEN Tail(taskqueue)
                           ELSE <<[job |-> q.job,
                                   i |-> IF q.job = 0 THEN 0 ELSE q.i + 1,
                                   batches |-> Tail(q.batches)]>> \o Tail(taskqueue)
    /\ UNCHANGED <<cfgvars, reqvars, busy, loop, pc, docs, mod, k, cur, it, registry, inference_mode, timings>>

\* an idle worker takes the oldest waiting task
WorkerGet(w) ==
    /\ busy[w] = NoTask
    /\ inqueue # <<>>
    /\ busy' = [busy EXCEPT ![w] = Head(inqueue)]
    /\ inqueue' = Tail(inqueue)
    /\ UNCHANGED <<cfgvars, reqvars, taskqueue, loop, pc, docs, mod, k, cur, it, registry, inference_mode, timings>>

\* _preproc_images / _preproc_texts returns in worker w
WorkerReturn(w) ==
    /\ busy[w].job \in Reqs
    /\ it' = [it EXCEPT ![busy[w].job] =
            IMapSet(@, busy[w].i, Preproc(docs[busy[w].job], busy[w].da))]
    /\ busy' = [busy EXCEPT ![w] = NoTask]
    /\ timings' = Observe(timings, busy[w].job, PreprocScope(mod[busy[w].job]))
    /\ UNCHANGED <<cfgvars, reqvars, taskqueue, inqueue, loop, pc, docs, mod, k, cur, registry,
                   inference_mode>>

\* the transform raises in worker w
WorkerRaise(w) ==
    /\ busy[w].job \in Reqs
    /\ it' = [it EXCEPT ![busy[w].job] = IMapSet(@, busy[w].i, Raised)]
    /\ busy' = [busy EXCEPT ![w] = NoTask]
    /\ timings' = Observe(timings, busy[w].job, PreprocScope(mod[busy[w].job]))
    /\ UNCHANGED <<cfgvars, reqvars, taskqueue, inqueue, loop, pc, docs, mod, k, cur, registry,
                   inference_mode>>

\* worker w finishes a task whose iterator was dropped
WorkerDrop(w) ==
    /\ busy[w].job = 0
    /\ busy' = [busy EXCEPT ![w] = NoTask]
    /\ UNCHANGED <<cfgvars, reqvars, taskqueue, inqueue, loop, pc, docs, mod, k, cur, it, registry, inference_mode, timings>>

Next ==
    \/ \E r \in Reqs : Arrive(r)
    \/ \E r \in Reqs : EncodeRequest(r)
    \/ \E r \in Reqs : RankRequest(r)
    \/ \E r \in Reqs : Split(r)
    \/ \E r \in Reqs : SkipModality(r)
    \/ \E r \in Reqs : MapBatch(r)
    \/ \E r \in Reqs : Yield(r)
    \/ \E r \in Reqs : YieldRaise(r)
    \/ \E r \in Reqs : InferReturn(r)
    \/ \E r \in Reqs : InferRaise(r)
    \/ \E r \in Reqs : SetRank(r)
    \/ \E r \in Reqs : Respond(r)
    \/ HandleTasks
    \/ \E w \in Workers : WorkerGet(w)
    \/ \E w \in Workers : WorkerReturn(w)
    \/ \E w \in Workers : WorkerRaise(w)
    \/ \E w \in Workers : WorkerDrop(w)

Spec == Init /\ [][Next]_vars

\* construction alone, on every host
SpecInit == InitNew /\ [][Construct]_vars

\* construction on the serving host, then requests as far as encode's choice
\* of the selection path
NextPaths ==
    \/ Construct
    \/ \E r \in Reqs : Arrive(r)
    \/ \E r \in Reqs : EncodeRequest(r)
    \/ \E r \in Reqs : RankRequest(r)

InitPaths == InitNew /\ host = ServingHost

SpecPaths == InitPaths /\ [][NextPaths]_vars

\* ---- properties ----
\* request r's handler has read its Document Set
Split_done(r) == pc[r] \in {"image", "text", "next", "infer", "set_rank", "done", "failed"}

\* the Items encode selected: docs[access_paths]
Selected(r) == Select(docs[r], da[r], access_paths[r])

HasContent(D, i) == D.kind[i] # "none"

\* the embedding of Item i's own content
OwnEmbedding(D, i) ==
    IF D.kind[i] = "image" THEN encode_image(<<D.content[i]>>)[1]
    ELSE encode_text(<<D.content[i]>>)[1]

\* encode has returned its Document Set to the framework or to rank
EncodeReturned(r) ==
    \/ on[r] = "encode" /\ pc[r] = "done"
    \/ on[r] = "rank" /\ pc[r] \in {"set_rank", "done"}

\* C1: after an encode call that returned, a selected Item carries an
\* embedding exactly when it has image or text content, that embedding is the
\* one of its own content, and an Item with neither content carries none.
C1_EmbeddingsExact ==
    \A r \in Reqs : EncodeReturned(r) =>
        \A i \in Range(Selected(r)) :
            /\ HasContent(docs[r], i) => docs[r].embedding[i] = OwnEmbedding(docs[r], i)
            /\ ~HasContent(docs[r], i) => docs[r].embedding[i] = 0

\* an encode call returned after two image Items shared one minibatch and an
\* Item without content was selected too
C1_Witness ==
    \E r \in Reqs :
        /\ on[r] = "encode" /\ pc[r] = "done"
        /\ Len(_img_da[r]) >= 2
        /\ _minibatch_size >= 2
        /\ \E i \in Range(Selected(r)) : ~HasContent(docs[r], i)
        /\ \A i \in Range(_img_da[r]) : docs[r].embedding[i] # 0

RECURSIVE Filter(_, _)
\* the elements of s whose test holds, in the order of s
Filter(s, test) ==
    IF s = <<>> THEN <<>>
    ELSE (IF test[Head(s)] THEN <<Head(s)>> ELSE <<>>) \o Filter(Tail(s), test)

NoRepeat(s) == \A a, b \in 1..Len(s) : s[a] = s[b] => a = b

\* C2: the split puts every selected Item in at most one subset and never
\* twice, by its content, and each subset keeps the order of the selection.
C2_SplitExact ==
    \A r \in Reqs : Split_done(r) =>
        /\ Range(_img_da[r]) \cap Range(_txt_da[r]) = {}
        /\ NoRepeat(_img_da[r]) /\ NoRepeat(_txt_da[r])
        /\ _img_da[r] = Filter(Selected(r), [i \in Items(docs[r]) |-> docs[r].kind[i] = "image"])
        /\ _txt_da[r] = Filter(Selected(r), [i \in Items(docs[r]) |-> docs[r].kind[i] = "text"])

\* C3: a minibatch handed to the inference engine is not empty, holds at most
\* _minibatch_size Items of one modality, exactly _minibatch_size unless it is
\* the last, and is the next slice of the subset, so that the minibatches put
\* end to end are the subset.
C3_MinibatchShape ==
    \A r \in Reqs : pc[r] = "infer" =>
        LET b == _minibatch_size
            n == Len(Subset(r))
            mb == cur[r].da
        IN  /\ mb # <<>>
            /\ Len(mb) <= b
            /\ (k[r] + 1) * b < n => Len(mb) = b
            /\ \A j \in 1..Len(mb) : docs[r].kind[mb[j]] = mod[r]
            /\ mb = SubSeq(Subset(r), k[r] * b + 1, Min((k[r] + 1) * b, n))

\* the last minibatch of a subset is at the engine and is smaller than the
\* ones before it
C3_Witness ==
    \E r \in Reqs :
        /\ pc[r] = "infer"
        /\ k[r] >= 1
        /\ Len(cur[r].da) < _minibatch_size

\* C4: when an encode call fails, no Item of its Document Set carries an
\* embedding written by the call.
C4_NoPartialCommit ==
    \A r \in Reqs : pc[r] = "failed" =>
        \A i \in Items(docs[r]) : docs[r].embedding[i] = 0

IsTextBatch(r, batch) == batch # <<>> /\ docs[r].kind[batch[1]] = "text"

\* text work of request r is in the pool, in its iterator or at the engine
TextBegun(r) ==
    \/ \E j \in 1..Len(taskqueue) :
          /\ taskqueue[j].job = r
          /\ IsTextBatch(r, Head(taskqueue[j].batches))
    \/ \E j \in 1..Len(inqueue) : inqueue[j].job = r /\ IsTextBatch(r, inqueue[j].da)
    \/ \E w \in Workers : busy[w].job = r /\ IsTextBatch(r, busy[w].da)
    \/ \E j \in 1..Len(it[r].items) : IsTextBatch(r, it[r].items[j].da)
    \/ \E u \in it[r].unsorted : IsTextBatch(r, u.obj.da)
    \/ pc[r] = "infer" /\ IsTextBatch(r, cur[r].da)

\* C5: no text minibatch is submitted to the pool or to the engine before the
\* embedding of every image minibatch of the call is written.
C5_ImagesBeforeTexts ==
    \A r \in Reqs : TextBegun(r) =>
        \A i \in Range(_img_da[r]) : docs[r].embedding[i] # 0

\* a text minibatch is at the engine after two image minibatches were encoded
C5_Witness ==
    \E r \in Reqs :
        /\ pc[r] = "infer" /\ IsTextBatch(r, cur[r].da)
        /\ Len(Batches(_img_da[r], _minibatch_size)) >= 2

\* C6: at most one inference call is in progress at any time, in the
\* handlers and in the pool's workers together.
C6_OneInferenceAtATime ==
    Cardinality({r \in Reqs : pc[r] = "infer"})
        + Cardinality({w \in Workers : WorkerInfers(busy[w])}) <= 1

\* an inference call is in progress while another request waits for its
\* handler to start and two workers preprocess in parallel
C6_Witness ==
    \E r1, r2 \in Reqs :
        /\ pc[r1] = "infer"
        /\ pc[r2] = "pending"
        /\ \A w \in Workers : busy[w].job = r1

\* C7: the pair handed to the engine is the next minibatch in the order the
\* minibatches were formed, with the tensor computed from that minibatch, and
\* the results waiting in the iterator follow in that order.
C7_YieldOrder ==
    \A r \in Reqs :
        LET bs == Batches(Subset(r), _minibatch_size)
        IN  /\ pc[r] = "infer" =>
                /\ cur[r].da = bs[k[r] + 1]
                /\ cur[r].tensor = [j \in 1..Len(cur[r].da) |-> docs[r].content[cur[r].da[j]]]
            /\ pc[r] \in {"next", "infer"} =>
                \A j \in 1..Len(it[r].items) :
                    LET at == k[r] + j + (IF pc[r] = "infer" THEN 1 ELSE 0)
                    IN  it[r].items[j].ok => it[r].items[j].da = bs[at]

\* a minibatch is at the engine while a later one was preprocessed before the
\* one in between
C7_Witness ==
    \E r \in Reqs : pc[r] = "infer" /\ it[r].unsorted # {}

\* the selection paths request r's parameters supply, under either name
Supplied(r) == {parameters[r].access_paths, parameters[r].traversal_paths} \ {Absent}

\* C8: encode uses a selection path of its request whenever the request
\* supplies one, under access_paths or traversal_paths, and the instance
\* default only when it supplies neither.
C8_RequestPathWins ==
    \A r \in Reqs : (pc[r] = "split" /\ on[r] = "encode") =>
        /\ Supplied(r) # {} => access_paths[r] \in Supplied(r)
        /\ Supplied(r) = {} => access_paths[r] = _access_paths

\* encode chose the path its request supplies, which is not the default
C8_Witness ==
    \E r \in Reqs :
        /\ pc[r] = "split" /\ on[r] = "encode"
        /\ parameters[r].access_paths \notin {Absent, _access_paths}
        /\ access_paths[r] = parameters[r].access_paths

\* the roots of request r and their matches
RootsAndMatches(r) ==
    Range(docs[r].roots) \cup UNION {Range(docs[r].matches[q]) : q \in Range(docs[r].roots)}

\* C9: when rank's scoring step starts, every root and every match of a root
\* that has content carries an embedding.
C9_RankEncodesAll ==
    \A r \in Reqs : (on[r] = "rank" /\ pc[r] = "set_rank") =>
        \A i \in RootsAndMatches(r) :
            HasContent(docs[r], i) => docs[r].embedding[i] # 0

RuleBudget ==
    LET c == IF host.executor = "onnx" THEN 2 ELSE 1
        q == (c * host.get_num_threads) \div host.replicas
    IN  IF q < 1 THEN 1 ELSE q

BudgetAsRuled ==
    /\ engine.intra_op_num_threads = RuleBudget
    /\ engine.intra_op_num_threads >= 1
    /\ engine.inter_op_num_threads = 1
    /\ engine.warned <=> (RuleBudget < 2)

\* C11 as stated: on every CPU-only host with a replica count, the constructed
\* instance has intra-op budget max(1, (c * t) div r), which is at least 1,
\* inter-op parallelism 1, and has warned exactly when the budget is below 2.
C11_BudgetOnEveryCpuHost ==
    (engine.ready /\ host.device = "cpu" /\ host.has_replicas) => BudgetAsRuled

\* C11, amended: the rule is applied on a CPU-only host with a replica count
\* when OMP_NUM_THREADS is not in the environment; then the budget is
\* max(1, (c * t) div r), at least 1, inter-op parallelism is 1 and the warning
\* is given exactly when the budget is below 2. When OMP_NUM_THREADS is set,
\* __init__ sets no thread count and gives no warning. Construction completes
\* in both cases.
C11_ThreadBudget ==
    (engine.ready /\ host.device = "cpu" /\ host.has_replicas) =>
        IF host.OMP_NUM_THREADS
        THEN /\ engine.intra_op_num_threads = 0
             /\ engine.inter_op_num_threads = 0
             /\ ~engine.warned
        ELSE BudgetAsRuled

\* two host threads shared by eight replicas: budget 1, warning, instance ready
C11_Witness ==
    /\ engine.ready
    /\ host.device = "cpu" /\ host.has_replicas /\ ~host.OMP_NUM_THREADS
    /\ host.get_num_threads = 2 /\ host.replicas = 8
    /\ engine.intra_op_num_threads = 1
    /\ engine.warned

\* ---- empty subsets ----
\* the minibatches of call r that are in the pool, queued or running
PoolBatches(r) ==
    UNION {Range(q.batches) : q \in {q2 \in Range(taskqueue) : q2.job = r}}
    \cup {t.da : t \in {t2 \in Range(inqueue) : t2.job = r}}
    \cup {busy[w].da : w \in {w2 \in Workers : busy[w2].job = r}}

\* the minibatches call r's iterator and loop body hold
HeldBatches(r) ==
    {x.da : x \in {y \in Range(it[r].items) : y.ok}}
    \cup {u.obj.da : u \in {v \in it[r].unsorted : v.obj.ok}}
    \cup (IF cur[r].ok THEN {cur[r].da} ELSE {})

\* nothing of modality m is in the pool, in the iterator or at the model for
\* call r
NoWorkFor(r, m) ==
    /\ \A b \in PoolBatches(r) \cup HeldBatches(r) :
            \A j \in 1..Len(b) : docs[r].kind[b[j]] # m
    /\ pc[r] \in {"next", "infer"} => mod[r] # m
    /\ pc[r] = "failed" => mod[r] # m

\* C12: when the image (text) subset of a call is empty, no minibatch of that
\* modality is submitted to the pool, none reaches encode_image (encode_text),
\* and the call does not fail in that modality's pipeline; when both subsets
\* are empty the call goes to its end with no pool task and no inference call.
C12_EmptySubsetSkipped ==
    \A r \in Reqs : Split_done(r) =>
        /\ _img_da[r] = <<>> => NoWorkFor(r, "image")
        /\ _txt_da[r] = <<>> => NoWorkFor(r, "text")
        /\ (_img_da[r] = <<>> /\ _txt_da[r] = <<>>) =>
              /\ pc[r] \in {"image", "text", "set_rank", "done"}
              /\ PoolBatches(r) = {}

\* an encode call of texts only has returned
C12_Witness ==
    \E r \in Reqs :
        /\ pc[r] = "done"
        /\ _img_da[r] = <<>>
        /\ _txt_da[r] # <<>>
        /\ \A j \in 1..Len(_txt_da[r]) : docs[r].embedding[_txt_da[r][j]] # 0

\* ---- a transform that fails ----
\* the minibatches (numbered from 0) of call r's pipeline whose transform has
\* raised and whose exception the iterator holds
FailedIndexes(r) ==
    {it[r].index - Len(it[r].items) + p - 1 :
        p \in {q \in 1..Len(it[r].items) : ~it[r].items[q].ok}}
    \cup {u.i : u \in {v \in it[r].unsorted : ~v.obj.ok}}

\* the model is called with a transformed minibatch that comes before every
\* failed one, and a call that holds a failed minibatch is still in that
\* minibatch's pipeline
FailedNotInferred ==
    \A r \in Reqs :
        /\ pc[r] = "infer" =>
              /\ cur[r].ok
              /\ \A f \in FailedIndexes(r) : k[r] < f
        /\ FailedIndexes(r) # {} => pc[r] \in {"next", "infer"}

\* a call that holds a failed minibatch keeps it until it ends in failure, and
\* a failed call takes no further step but its response
FailureSurfaces ==
    \A r \in Reqs :
        /\ FailedIndexes(r) # {} =>
              \/ pc'[r] = "failed"
              \/ /\ pc'[r] \in {"next", "infer"}
                 /\ FailedIndexes(r) \subseteq FailedIndexes(r)'
        /\ pc[r] = "failed" => pc'[r] \in {"failed", "idle"}

\* C13: once the transform of minibatch k has failed in a worker, the call ends
\* in failure: it does not return, does not skip the minibatch, and calls the
\* model for no minibatch from k on nor for the other modality's pipeline.
C13_TransformFailureSurfaces == []FailedNotInferred /\ [][FailureSurfaces]_vars

\* the consumer, after inference on an earlier minibatch, is at a minibatch
\* whose transform has failed
C13_Witness ==
    \E r \in Reqs :
        /\ pc[r] = "next"
        /\ k[r] >= 1
        /\ it[r].items # <<>>
        /\ ~Head(it[r].items).ok

\* ---- after a failed call ----
\* x, if it is a transformed minibatch, is minibatch i (from 0) of the subset
\* call r is working on, transformed
OwnPair(r, x, i) ==
    x.ok => x = Preproc(docs[r], Batches(Subset(r), _minibatch_size)[i + 1])

\* what call r's iterator and loop body hold comes from r's own map_batch
OwnResults(r) ==
    IF pc[r] \in {"next", "infer"}
    THEN /\ \A p \in 1..Len(it[r].items) :
                OwnPair(r, it[r].items[p], it[r].index - Len(it[r].items) + p - 1)
         /\ \A u \in it[r].unsorted : OwnPair(r, u.obj, u.i)
         /\ pc[r] = "infer" => OwnPair(r, cur[r], k[r])
    ELSE it[r] = NoIter /\ cur[r] = NoPair

\* worker w is idle, or runs a leftover task, or runs a minibatch of a call that
\* is in its pipeline; a worker that runs a task can finish it
WorkerInService(w) ==
    /\ \/ busy[w] = NoTask
       \/ busy[w].job = 0
       \/ /\ busy[w].job \in Reqs
          /\ pc[busy[w].job] \in {"next", "infer"}
          /\ busy[w].da = Batches(Subset(busy[w].job), _minibatch_size)[busy[w].i + 1]
    /\ busy[w] # NoTask => ENABLED (WorkerReturn(w) \/ WorkerRaise(w) \/ WorkerDrop(w))

\* C14: a failed call leaves the pool in service: every worker is idle or runs
\* a task it can finish, the minibatches the failed call left behind report to
\* nobody, and whatever a later call consumes, and whatever makes it fail, comes
\* from its own minibatches, so that a later call whose transform and model do
\* not raise returns its embeddings.
C14_PoolSurvivesFailure ==
    /\ \A r \in Reqs : OwnResults(r)
    /\ \A w \in Workers : WorkerInService(w)

\* a call has returned its embeddings while a worker still runs a minibatch
\* that a failed call left behind
C14_Witness ==
    \E r \in Reqs :
        /\ pc[r] = "done"
        /\ Len(Selected(r)) > 0
        /\ \A j \in 1..Len(Selected(r)) :
              HasContent(docs[r], Selected(r)[j]) =>
                  docs[r].embedding[Selected(r)[j]] = OwnEmbedding(docs[r], Selected(r)[j])
        /\ \E j \in 1..Len(Selected(r)) : HasContent(docs[r], Selected(r)[j])
        /\ \E w \in Workers : busy[w].job = 0

\* ---- look-ahead ----
\* the highest minibatch (numbered from 0) of call r that has been handed to a
\* worker or transformed, -1 if none
Submitted(r) ==
    LET idx == {t.i : t \in {t2 \in Range(inqueue) : t2.job = r}}
               \cup {busy[w].i : w \in {w2 \in Workers : busy[w2].job = r}}
               \cup {it[r].index - 1}
               \cup {u.i : u \in it[r].unsorted}
    IN  CHOOSE m \in idx : \A n \in idx : n <= m

\* C15: while minibatch k of a pipeline is at the model, no minibatch beyond
\* k+1 has been handed to the pool's workers or transformed.
C15_LookAheadOne ==
    \A r \in Reqs : pc[r] = "infer" => Submitted(r) <= k[r] + 1

\* ---- the deprecated parameter name ----
\* C16: traversal_paths is still honored, by __init__ and by encode, and over
\* construction followed by encode requests its deprecation warning is shown
\* at most once.
C16_LegacyNameWarnsOnce ==
    /\ Cardinality(registry) <= 1
    /\ (engine.ready /\ "__init__" \in registry) => _access_paths \in Paths
    /\ \A r \in Reqs :
          (pc[r] = "split" /\ parameters[r].traversal_paths # Absent /\ on[r] = "encode")
              => access_paths[r] = parameters[r].traversal_paths

\* ---- timing scopes ----
\* the observations a call that went through both pipelines has recorded: one
\* per minibatch and scope
FullTimings(r) ==
    LET ni == Len(Batches(_img_da[r], _minibatch_size))
        nt == Len(Batches(_txt_da[r], _minibatch_size))
    IN  [n \in TimingNames |->
            IF n \in {"preprocess_images_seconds", "encode_images_seconds"} THEN ni ELSE nt]

\* no transform of call r is running in a worker or waiting for one
NoScopeOpen(r) ==
    /\ pc[r] # "infer"
    /\ \A w \in Workers : busy[w].job # r
    /\ \A j \in 1..Len(inqueue) : inqueue[j].job # r
    /\ \A j \in 1..Len(taskqueue) : taskqueue[j].job # r

\* when encode has returned, each scope has one observation per minibatch of
\* its modality and none of the call's scopes is open
ReturnedTimings ==
    \A r \in Reqs : pc[r] \in {"set_rank", "done"} =>
        timings[r] = FullTimings(r) /\ NoScopeOpen(r)

\* a step that leaves a scope of call r, by return or by exception, records one
\* observation under the scope's name, and nothing else is recorded
ScopeRecordedOnce ==
    /\ \A r \in Reqs :
        /\ (pc[r] = "infer" /\ pc'[r] # "infer") =>
              timings'[r][EncodeScope(mod[r])] = timings[r][EncodeScope(mod[r])] + 1
        /\ \A n \in TimingNames : timings'[r][n] # timings[r][n] =>
              \/ pc'[r] = "idle" /\ timings'[r] = NoTimings
              \/ /\ timings'[r][n] = timings[r][n] + 1
                 /\ \/ n = EncodeScope(mod[r]) /\ pc[r] = "infer" /\ pc'[r] # "infer"
                    \/ n = PreprocScope(mod[r])
                       /\ \E w \in Workers : busy[w].job = r /\ busy'[w] = NoTask
    /\ \A w \in Workers :
        /\ (busy[w].job \in Reqs /\ busy'[w] = NoTask) =>
              timings'[busy[w].job][PreprocScope(mod[busy[w].job])]
                  = timings[busy[w].job][PreprocScope(mod[busy[w].job])] + 1
        /\ (busy[w].job = 0 /\ busy'[w] # busy[w]) => busy'[w] = NoTask

\* when a call ends, by return or by failure, no worker is inside a transform
\* of it
NoScopeOpenAtEnd ==
    \A r \in Reqs : (Ended(pc'[r]) /\ ~Ended(pc[r])) => \A w \in Workers : busy[w].job # r

Writable(r, i) == i \in Range(Selected(r)) /\ HasContent(docs[r], i)

\* a step of encode keeps the Items, their order, nesting, content and scores,
\* and the embedding slot of every Item that is not selected or has no content
EncodeFrame ==
    \A r \in Reqs : pc[r] \in {"image", "text", "next", "infer"} =>
        /\ docs'[r].roots = docs[r].roots
        /\ docs'[r].matches = docs[r].matches
        /\ docs'[r].kind = docs[r].kind
        /\ docs'[r].content = docs[r].content
        /\ docs'[r].score = docs[r].score
        /\ DOMAIN docs'[r].embedding = DOMAIN docs[r].embedding
        /\ \A i \in Items(docs[r]) :
              ~Writable(r, i) => docs'[r].embedding[i] = docs[r].embedding[i]

\* an Item that is not selected or has no content has the embedding slot it
\* came with: none
Untouched ==
    \A r \in Reqs : Split_done(r) =>
        \A i \in Items(docs[r]) : ~Writable(r, i) => docs[r].embedding[i] = 0

\* C18: encode changes nothing but the embedding slots of the selected Items
\* with content: same Items, same order, content and nesting unchanged, Items
\* not selected or without content untouched.
C18_EncodeFrame == []Untouched /\ [][EncodeFrame]_vars

\* encode has returned a Document Set in which a selected Item carries its
\* embedding, an Item with content that was not selected carries none, and an
\* Item without content carries none
C18_Witness ==
    \E r \in Reqs :
        /\ pc[r] = "done" /\ on[r] = "encode"
        /\ \E i \in Items(docs[r]) : Writable(r, i) /\ docs[r].embedding[i] # 0
        /\ \E i \in Items(docs[r]) :
              /\ i \notin Range(Selected(r)) /\ HasContent(docs[r], i)
              /\ docs[r].embedding[i] = 0
        /\ \E i \in Items(docs[r]) : ~HasContent(docs[r], i) /\ docs[r].embedding[i] = 0

\* ---- inference-only mode ----
\* C19: in the Torch executor the model is called, for either modality and
\* every minibatch, while inference-only mode is active, and the mode has been
\* left when encode has ended, by return or by failure.
C19_InferenceOnlyMode ==
    host.executor = "torch" =>
        \A r \in Reqs :
            /\ pc[r] = "infer" => inference_mode
            /\ pc[r] \in {"set_rank", "done", "failed"} => ~inference_mode

\* an encode call that ran the model on an image minibatch and then on a text
\* minibatch has failed in the text pipeline, and the mode has been left
C19_Witness ==
    \E r \in Reqs :
        /\ host.executor = "torch"
        /\ pc[r] = "failed" /\ mod[r] = "text"
        /\ timings[r]["encode_images_seconds"] >= 1
        /\ timings[r]["encode_texts_seconds"] >= 1
        /\ ~inference_mode

\* ---- handlers do not interleave ----
\* request r's handler has started and its response is not out
Started(r) == pc[r] \notin {"idle", "pending"}

\* C20: a handler that has started holds the event-loop thread until its
\* response is out, so at most one handler is between its start and its end:
\* no step of another request falls between the steps of an encode or rank
\* call, and set_rank runs on the embeddings its own encode call wrote.
C20_NoInterleaving ==
    /\ Cardinality({r \in Reqs : Started(r)}) <= 1
    /\ \A r \in Reqs : Started(r) => loop = r
    /\ \A r \in Reqs : pc[r] = "set_rank" =>
          \A i \in Range(Selected(r)) :
              HasContent(docs[r], i) => docs[r].embedding[i] = OwnEmbedding(docs[r], i)

\* a rank call is about to score while another request waits for its handler
\* to start
C20_Witness ==
    \E r1, r2 \in Reqs :
        /\ pc[r1] = "set_rank"
        /\ pc[r2] = "pending"
        /\ \E i \in Range(Selected(r1)) : docs[r1].embedding[i] # 0
====
